---- MODULE Spec2Model ----
(***************************************************************************)
(* Model of the CameraViewer component                                     *)
(* (src/hello-world-game-web-app/src/components/CameraViewer.js).          *)
(*                                                                         *)
(* The component is a single-threaded event loop: every action below is    *)
(* one run-to-completion piece of a handler, i.e. the code between two     *)
(* awaits.  Network calls (getStream, getDetectionsFromCamera, push,       *)
(* doCommand) are in flight between the action that issues them and the    *)
(* action that runs the continuation; calls complete in any order.         *)
(* React state (useState) is only written while the component is mounted;  *)
(* refs (useRef) and browser resources (timers, media tracks) are written  *)
(* regardless.                                                             *)
(***************************************************************************)
EXTENDS Integers, Sequences, FiniteSets, TLC

(* ------------------------------ bounds --------------------------------- *)
\* number of camera selections (handleCameraSelect calls) explored
MaxSelects == 3
\* number of start-game clicks (startGame calls) explored
MaxStarts == 2
\* number of fetches of one polling loop that may be outstanding at once
MaxInFlight == 2
\* the clock stops advancing past this many milliseconds
MaxNow == 60500
\* TimerSpec: camera selections plus start-game clicks explored
MaxCalls == 3
\* TimerSpec: getStream plus push calls that may be outstanding at once
MaxPending == 2

(* ------------------------- program constants --------------------------- *)
\* calculateTimeRemaining: roundStartTime.getTime() + 60000
RoundMs == 60000
\* calculateTimeRemaining: (roundEndTime - now) / 1000
MsPerSecond == 1000

(* ------------------------------ inputs --------------------------------- *)
\* options of the camera <select> (cameras.map(...))
Cameras == {"camA", "camB"}
\* values of useRef(null) / useState(null)
Null == 0

VARIABLES
    mounted,               \* the component has not been unmounted
    viamClient,            \* useState(null): TRUE once setViamClient(client) ran
    loading,               \* useState(true)
    error,                 \* useState(null): TRUE once setError(message) ran
    selectedCamera,        \* useState('')
    mediaStream,           \* useState(null): id of the stream held, or Null
    isStreaming,           \* useRef(false)
    detections,            \* useState([])
    canvas,                \* the boxes drawn on the overlay <canvas>, in drawing order
    detectionIntervalRef,  \* useRef(null): timer id, or Null
    detTimers,             \* live setInterval timers of startStream: [id, cam]
    streamCalls,           \* getStream calls in flight: [id, cam]
    liveStreams,           \* acquired streams whose tracks are not stopped: [id, cam]
    detFetches,            \* getDetectionsFromCamera calls in flight, per timer id
    nSelects,              \* handleCameraSelect calls so far (ids of calls, streams, timers)
    gameStatus,            \* useState('Ready to start')
    isGameRunning,         \* useState(false)
    isGameRunningRef,      \* useRef(false)
    gameData,              \* useState({score: 0, item_to_detect: '', time_round_start: 'None'})
    timeRemaining,         \* useState(0)
    gameDataIntervalRef,   \* useRef(null): timer id, or Null
    gameTimers,            \* live setInterval timers of startGame: ids
    pushCalls,             \* button.push() calls in flight: ids
    gameFetches,           \* button.doCommand calls in flight, per timer id
    nStarts,               \* startGame calls so far (ids of calls and timers)
    now,                   \* the wall clock, milliseconds
    stopped,               \* history: stopGame ran and startGame has not run since
    snapshotApplied,       \* history: setGameData(result) has run
    overlapped,            \* history: a camera was selected while a getStream was in flight
    stoppedLoops,          \* history: ids of the detection timers stopStream cleared
    roundOver,             \* the game module has no round in progress: it answers "no round"
    oldFetches,            \* doCommand calls in flight that the module may have answered before that, per timer id
    lastOp,                \* history: the handler step that ran last
    lastResult             \* history: <<result>> if that step ran setGameData(result), else << >>

streamVars == <<selectedCamera, mediaStream, isStreaming, detections, canvas,
                detectionIntervalRef, detTimers, streamCalls, liveStreams,
                detFetches, nSelects, overlapped, stoppedLoops>>
gameVars == <<gameStatus, isGameRunning, isGameRunningRef, gameData,
              timeRemaining, gameDataIntervalRef, gameTimers, pushCalls,
              gameFetches, nStarts, stopped, snapshotApplied, roundOver, oldFetches>>
bootVars == <<viamClient, loading>>
vars == <<mounted, bootVars, error, streamVars, gameVars, now, lastOp, lastResult>>

\* A useState setter: React drops state updates of an unmounted component.
SetState(old, new) == IF mounted THEN new ELSE old

\* The controls (start button, camera select) are rendered only past the
\* "if (loading) return ..." and "if (error) return ..." early returns.
ControlsRendered == mounted /\ ~loading /\ ~error
\* The <video> and <canvas> elements are rendered only past those returns
\* and inside "{selectedCamera && (...)}".
CanvasRendered == ControlsRendered /\ selectedCamera # ""

(* ------------------------------ inputs, continued ---------------------- *)
\* Coordinates are counted in thousandths, so that fractions of 1 are
\* integers: One is the number 1 of the code's "> 1".
One == 1000
\* video.videoWidth, video.videoHeight: the size of the camera's frames
VideoWidth == 640
VideoHeight == 480
\* results of getDetectionsFromCamera: Detection lists (xMin, yMin, xMax,
\* yMax, className).  A box in fractions of the frame (0.1, 0.2, 0.5, 0.6),
\* the same box in pixels (64, 96, 320, 288), and a box in pixels whose
\* corner is the frame's origin (0, 0, 320, 240).
Detection(xMin, yMin, xMax, yMax) ==
    [xMin |-> xMin, yMin |-> yMin, xMax |-> xMax, yMax |-> yMax, className |-> "cup"]
NormalizedCup == Detection(100, 200, 500, 600)
PixelCup == Detection(64 * One, 96 * One, 320 * One, 288 * One)
CornerCup == Detection(0, 0, 320 * One, 240 * One)
DetectionLists == {<< >>, <<NormalizedCup>>, <<PixelCup, CornerCup>>}

\* JavaScript values that are not strings, as a field of a doCommand result
\* may hold them: undefined (the field is missing) and a number
Undefined == "<undefined>"
NumberValue == "<number>"
\* the truthiness test of "!v" and "v && ...": among the values modelled,
\* the empty string and undefined are falsy
Truthy(v) == v # "" /\ v # Undefined

\* results of doCommand({action: ""}): {score, time_round_start, item_to_detect}.
\* time_round_start is the string 'None', the empty string, a string that
\* Date cannot parse, or a timestamp; a result of another shape lacks the
\* fields or holds a number where a string is expected.
Timestamps == {"1970-01-01T00:00:00Z", "1970-01-01T00:00:20.250Z"}
Snapshot(item, start) == [score |-> 2, item_to_detect |-> item, time_round_start |-> start]
Snapshots ==
    { Snapshot("", "None"),                        \* no round
      Snapshot("cup", "1970-01-01T00:00:00Z"),     \* a round
      Snapshot("cup", "1970-01-01T00:00:20.250Z"), \* the next round
      Snapshot("None", "None"),                    \* 'None' for both fields
      Snapshot("", "1970-01-01T00:00:00Z"),        \* no target, round start set
      Snapshot("cup", ""),                         \* a target, empty round start
      Snapshot("cup", "unparsable"),               \* a target, malformed round start
      Snapshot(Undefined, Undefined),              \* {}: the fields are missing
      Snapshot(NumberValue, "None") }              \* a number for item_to_detect
\* what the module answers once its round has ended
NoRound == Snapshot("", "None")
\* steps by which the clock advances
ClockSteps == {30250}

\* fetches in flight, counted per polling timer (a timer's id is the number
\* of the handleCameraSelect / startGame call that created it)
RECURSIVE SumUpTo(_, _)
SumUpTo(f, n) == IF n = 0 THEN 0 ELSE f[n] + SumUpTo(f, n - 1)
NoDetFetches == [t \in 1..MaxSelects |-> 0]
NoGameFetches == [t \in 1..MaxStarts |-> 0]
InFlight(f) == SumUpTo(f, Len(f))
\* values of the history variable lastOp: it tells the steps that apply a
\* fetched snapshot ("getGameData"), that handle a rejected doCommand
\* ("getGameDataFailed"), a rejected getDetectionsFromCamera
\* ("getDetectionsFailed") or a rejected getStream ("streamFailed"), and the
\* countdown's tick ("countdownTick"), the catch block of startGame
\* ("startGameFailed"), and a setDetections followed by a
\* repaint of the overlay ("drawDetections") from all others
Op(name) == name
OtherOp == Op("other")

(* ------------------------------ Init ----------------------------------- *)
Init ==
    /\ mounted = TRUE
    /\ viamClient = FALSE
    /\ loading = TRUE
    /\ error = FALSE
    /\ selectedCamera = ""
    /\ mediaStream = Null
    /\ isStreaming = FALSE
    /\ detections = << >>
    /\ canvas = << >>
    /\ detectionIntervalRef = Null
    /\ detTimers = {}
    /\ streamCalls = {}
    /\ liveStreams = {}
    /\ detFetches = NoDetFetches
    /\ nSelects = 0
    /\ gameStatus = "Ready to start"
    /\ isGameRunning = FALSE
    /\ isGameRunningRef = FALSE
    /\ gameData = [score |-> 0, item_to_detect |-> "", time_round_start |-> "None"]
    /\ timeRemaining = 0
    /\ gameDataIntervalRef = Null
    /\ gameTimers = {}
    /\ pushCalls = {}
    /\ gameFetches = NoGameFetches
    /\ nStarts = 0
    /\ now = 0
    /\ stopped = FALSE
    /\ snapshotApplied = FALSE
    /\ roundOver = TRUE
    /\ oldFetches = NoGameFetches
    /\ overlapped = FALSE
    /\ stoppedLoops = {}
    /\ lastOp = OtherOp
    /\ lastResult = << >>

(* --------------------------- bootstrap effect -------------------------- *)
\* fetchAndSetCameras, first half: createClient() resolved, setViamClient.
\* (A rejected createClient leaves the component on "Loading..." for good.)
ClientCreated ==
    /\ mounted /\ ~viamClient
    /\ viamClient' = TRUE
    /\ lastOp' = OtherOp /\ lastResult' = << >>
    /\ UNCHANGED <<mounted, loading, error, streamVars, gameVars, now>>

\* fetchAndSetCameras, second half: resourceNames() resolved, setCameras,
\* setLoading(false).
CamerasListed ==
    /\ mounted /\ viamClient /\ loading
    /\ loading' = FALSE
    /\ lastOp' = OtherOp /\ lastResult' = << >>
    /\ UNCHANGED <<mounted, viamClient, error, streamVars, gameVars, now>>

(* --------------------------- StreamController -------------------------- *)
\* clearInterval(id) on the detection timers; clearInterval(null) does nothing
ClearDetTimer(timers, id) == {t \in timers : t.id # id}

\* mediaStream.getTracks().forEach(track => track.stop())
StopTracks(streams, id) == {s \in streams : s.id # id}

\* StartPolling without its "if (detectionIntervalRef.current) clearInterval"
StartPollingNoClear(timers, ref, id, cam) == timers \cup {[id |-> id, cam |-> cam]}

\* startStream after "await updateCameraStream(cameraId)": clear the timer
\* the ref holds, then setInterval and store the new id in the ref.
StartPolling(timers, ref, id, cam) ==
    ClearDetTimer(timers, ref) \cup {[id |-> id, cam |-> cam]}

\* handleCameraSelect(cameraId) up to the await of getStream, for the camera
\* options of the <select> (its empty "Select a camera" option is left out):
\* stopStream(); setSelectedCamera(cameraId); startStream(cameraId) until
\* updateCameraStream suspends in streamClient.getStream(cameraId).
HandleCameraSelect(cam) ==
    /\ ControlsRendered
    /\ nSelects < MaxSelects
    /\ cam # selectedCamera                       \* onChange of the <select>
    /\ nSelects' = nSelects + 1
    \* stopStream
    /\ liveStreams' = IF mediaStream # Null
                      THEN StopTracks(liveStreams, mediaStream) ELSE liveStreams
    /\ mediaStream' = Null
    /\ detections' = << >>
    /\ selectedCamera' = cam
    \* startStream: isStreaming.current = true follows stopStream's false
    /\ isStreaming' = TRUE
    /\ IF viamClient
       THEN /\ streamCalls' = streamCalls \cup {[id |-> nSelects + 1, cam |-> cam]}
            /\ detTimers' = ClearDetTimer(detTimers, detectionIntervalRef)
            /\ detectionIntervalRef' = Null
            /\ error' = error
       ELSE \* updateCameraStream throws and catches "Viam client not initialized"
            /\ streamCalls' = streamCalls
            /\ error' = TRUE
            /\ detTimers' = StartPolling(ClearDetTimer(detTimers, detectionIntervalRef),
                                         Null, nSelects + 1, cam)
            /\ detectionIntervalRef' = nSelects + 1
    /\ overlapped' = (overlapped \/ streamCalls # {})
    /\ stoppedLoops' = stoppedLoops \cup
                          {t.id : t \in {u \in detTimers : u.id = detectionIntervalRef}}
    /\ lastOp' = OtherOp /\ lastResult' = << >>
    /\ UNCHANGED <<mounted, bootVars, detFetches, canvas, gameVars, now>>

\* getStream resolved: setMediaStream(newStream), video.srcObject = newStream,
\* then the rest of startStream.  (The two continuations are consecutive
\* microtasks; no timer callback or UI event runs between them.)
StreamAcquired(call) ==
    /\ call \in streamCalls
    /\ streamCalls' = streamCalls \ {call}
    /\ liveStreams' = liveStreams \cup {call}
    /\ mediaStream' = SetState(mediaStream, call.id)
    /\ detTimers' = StartPolling(detTimers, detectionIntervalRef, call.id, call.cam)
    /\ detectionIntervalRef' = call.id
    /\ lastOp' = OtherOp /\ lastResult' = << >>
    /\ UNCHANGED <<mounted, bootVars, error, selectedCamera, isStreaming, detections,
                   canvas, detFetches, nSelects, overlapped, stoppedLoops, gameVars, now>>

\* getStream rejected: catch, setError(error.message), then the rest of
\* startStream all the same.
StreamFailed(call) ==
    /\ call \in streamCalls
    /\ streamCalls' = streamCalls \ {call}
    /\ error' = SetState(error, TRUE)
    /\ detTimers' = StartPolling(detTimers, detectionIntervalRef, call.id, call.cam)
    /\ detectionIntervalRef' = call.id
    /\ lastOp' = Op("streamFailed") /\ lastResult' = << >>
    /\ UNCHANGED <<mounted, bootVars, selectedCamera, mediaStream, isStreaming,
                   detections, canvas, liveStreams, detFetches, nSelects, overlapped,
                   stoppedLoops, gameVars, now>>

(* --------------------------- DetectionPoller --------------------------- *)
\* the setInterval callback of startStream, every 500 ms:
\* if (isStreaming.current) getDetections(cameraId), up to the await.
DetectionTick(t) ==
    /\ t \in detTimers
    /\ isStreaming
    /\ viamClient
    /\ InFlight(detFetches) < MaxInFlight
    /\ detFetches' = [detFetches EXCEPT ![t.id] = @ + 1]
    /\ lastOp' = OtherOp /\ lastResult' = << >>
    /\ UNCHANGED <<mounted, bootVars, error, selectedCamera, mediaStream, isStreaming,
                   detections, canvas, detectionIntervalRef, detTimers, streamCalls,
                   liveStreams, nSelects, overlapped, stoppedLoops, gameVars, now>>

(* --------------------- OverlayRenderer, CoordinateMapper --------------- *)
\* the body of drawDetections' forEach: the rectangle passed to strokeRect,
\* in thousandths of a pixel, for a canvas of the given width and height
MapBox(detection, width, height) ==
    IF detection.xMin > One \/ detection.yMin > One
    THEN \* coordinates are already in pixel format
         [x |-> detection.xMin, y |-> detection.yMin,
          width |-> detection.xMax - detection.xMin,
          height |-> detection.yMax - detection.yMin,
          className |-> detection.className]
    ELSE \* coordinates are normalized, convert to pixels
         [x |-> detection.xMin * width, y |-> detection.yMin * height,
          width |-> (detection.xMax - detection.xMin) * width,
          height |-> (detection.yMax - detection.yMin) * height,
          className |-> detection.className]

\* drawDetections: the canvas is sized to the video (which clears it),
\* cleared, and one box is drawn per detection
drawDetections(list, width, height) ==
    [i \in 1..Len(list) |-> MapBox(list[i], width, height)]

\* getDetectionsFromCamera resolved: setDetections(detections), then the
\* effect on [detections] of the render that follows: drawDetections() if
\* the list is not empty (drawDetections returns at once when the <canvas>
\* is not rendered)
DetectionsArrived(t, list) ==
    /\ detFetches[t] > 0
    /\ detFetches' = [detFetches EXCEPT ![t] = @ - 1]
    /\ detections' = SetState(detections, list)
    /\ IF CanvasRendered /\ Len(list) > 0
       THEN /\ canvas' = drawDetections(list, VideoWidth, VideoHeight)
            /\ lastOp' = Op("drawDetections")
       ELSE /\ canvas' = canvas
            /\ lastOp' = OtherOp
    /\ lastResult' = << >>
    /\ UNCHANGED <<mounted, bootVars, error, selectedCamera, mediaStream, isStreaming,
                   detectionIntervalRef, detTimers, streamCalls, liveStreams,
                   nSelects, overlapped, stoppedLoops, gameVars, now>>

\* DetectionsFailed with a setError(error.message) in the catch block
DetectionsFailedSetsError(t) ==
    /\ detFetches[t] > 0
    /\ detFetches' = [detFetches EXCEPT ![t] = @ - 1]
    /\ error' = SetState(error, TRUE)
    /\ lastOp' = Op("getDetectionsFailed") /\ lastResult' = << >>
    /\ UNCHANGED <<mounted, bootVars, selectedCamera, mediaStream, isStreaming,
                   detections, canvas, detectionIntervalRef, detTimers, streamCalls,
                   liveStreams, nSelects, overlapped, stoppedLoops, gameVars, now>>

\* getDetectionsFromCamera rejected: logged, nothing else
DetectionsFailed(t) ==
    /\ detFetches[t] > 0
    /\ detFetches' = [detFetches EXCEPT ![t] = @ - 1]
    /\ lastOp' = Op("getDetectionsFailed") /\ lastResult' = << >>
    /\ UNCHANGED <<mounted, bootVars, error, selectedCamera, mediaStream, isStreaming,
                   detections, canvas, detectionIntervalRef, detTimers, streamCalls,
                   liveStreams, nSelects, overlapped, stoppedLoops, gameVars, now>>

(* ---------------------------- CountdownTimer --------------------------- *)
\* !timeRoundStart || timeRoundStart === 'None'
NoRoundStart(timeRoundStart) == ~Truthy(timeRoundStart) \/ timeRoundStart = "None"

\* NaN, kept apart from every number the code computes (none is negative)
NaN == -1

\* new Date(timeRoundStart).getTime(): milliseconds since the epoch, NaN for
\* a string Date cannot parse
DateGetTime(timeRoundStart) ==
    CASE timeRoundStart = "1970-01-01T00:00:00Z" -> 0
      [] timeRoundStart = "1970-01-01T00:00:20.250Z" -> 20250
      [] OTHER -> NaN

\* calculateTimeRemaining without its "if (!timeRoundStart || ... 'None') return 0"
calculateTimeRemainingNoSentinel(timeRoundStart, clock) ==
    LET roundStartTime == DateGetTime(timeRoundStart)
        seconds == (roundStartTime + RoundMs - clock) \div MsPerSecond
    IN  IF roundStartTime = NaN THEN NaN
        ELSE IF seconds > 0 THEN seconds ELSE 0

\* calculateTimeRemaining without its Math.max(0, ...)
calculateTimeRemainingNoClamp(timeRoundStart, clock) ==
    IF NoRoundStart(timeRoundStart) THEN 0
    ELSE LET roundStartTime == DateGetTime(timeRoundStart)
             roundEndTime == roundStartTime + RoundMs
         IN  IF roundStartTime = NaN THEN NaN
             ELSE (roundEndTime - clock) \div MsPerSecond

\* calculateTimeRemaining with "now - roundStartTime" for "roundEndTime - now"
calculateTimeRemainingElapsed(timeRoundStart, clock) ==
    IF NoRoundStart(timeRoundStart) THEN 0
    ELSE LET roundStartTime == DateGetTime(timeRoundStart)
             seconds == (clock - roundStartTime) \div MsPerSecond
         IN  IF roundStartTime = NaN THEN NaN
             ELSE IF seconds > 0 THEN seconds ELSE 0

\* calculateTimeRemaining(timeRoundStart) evaluated at clock value clock.
\* Arithmetic on NaN, Math.floor and Math.max all propagate NaN.
calculateTimeRemaining(timeRoundStart, clock) ==
    IF NoRoundStart(timeRoundStart) THEN 0
    ELSE LET roundStartTime == DateGetTime(timeRoundStart)
             roundEndTime == roundStartTime + RoundMs
             seconds == (roundEndTime - clock) \div MsPerSecond
         IN  IF roundStartTime = NaN THEN NaN
             ELSE IF seconds > 0 THEN seconds ELSE 0

(* ------------------------- GameStatePoller, GamePhase ------------------ *)
\* clearInterval(id) on the game-data timers
ClearGameTimer(timers, id) == timers \ {id}

\* startGame after "await button.push()": clear the timer the ref holds,
\* then setInterval and store the new id in the ref.
StartGamePolling(timers, ref, id) == ClearGameTimer(timers, ref) \cup {id}

\* IsGameOver without its "&& result.time_round_start === 'None'"
IsGameOverItemOnly(result) == result.item_to_detect = ""

\* result.item_to_detect === '' && result.time_round_start === 'None'
IsGameOver(result) == result.item_to_detect = "" /\ result.time_round_start = "None"

\* IsInProgress without its "&& result.item_to_detect !== 'None'"
IsInProgressAnyItem(result) == Truthy(result.item_to_detect)

\* result.item_to_detect && result.item_to_detect !== 'None'
IsInProgress(result) ==
    Truthy(result.item_to_detect) /\ result.item_to_detect # "None"

\* startGame up to the await of button.push()
StartGame ==
    /\ ControlsRendered
    /\ ~isGameRunning                              \* disabled={isGameRunning}
    /\ nStarts < MaxStarts
    /\ nStarts' = nStarts + 1
    /\ stopped' = FALSE
    /\ IF viamClient
       THEN /\ gameStatus' = "Starting game..."
            /\ isGameRunning' = TRUE
            /\ isGameRunningRef' = TRUE
            /\ pushCalls' = pushCalls \cup {nStarts + 1}
            /\ lastOp' = OtherOp
       ELSE \* throws and catches "Viam client not initialized"
            /\ gameStatus' = "Error starting game"
            /\ isGameRunning' = FALSE
            /\ isGameRunningRef' = FALSE
            /\ pushCalls' = pushCalls
            /\ lastOp' = Op("startGameFailed")
    /\ lastResult' = << >>
    /\ UNCHANGED <<mounted, bootVars, error, streamVars, roundOver, oldFetches, gameData, timeRemaining,
                   gameDataIntervalRef, gameTimers, gameFetches, snapshotApplied, now>>

\* button.push() resolved (the game module has begun a round):
\* setGameStatus('Game started!'), start the polling
PushDone(id) ==
    /\ id \in pushCalls
    /\ pushCalls' = pushCalls \ {id}
    /\ gameStatus' = SetState(gameStatus, "Game started!")
    /\ gameTimers' = StartGamePolling(gameTimers, gameDataIntervalRef, id)
    /\ gameDataIntervalRef' = id
    /\ roundOver' = FALSE                          \* the module has begun a round
    /\ oldFetches' = NoGameFetches
    /\ lastOp' = OtherOp /\ lastResult' = << >>
    /\ UNCHANGED <<mounted, bootVars, error, streamVars, isGameRunning,
                   isGameRunningRef, gameData, timeRemaining, gameFetches, nStarts,
                   stopped, snapshotApplied, now>>

\* PushFailed without its setIsGameRunning(false)
PushFailedKeepsRunning(id) ==
    /\ id \in pushCalls
    /\ pushCalls' = pushCalls \ {id}
    /\ gameStatus' = SetState(gameStatus, "Error starting game")
    /\ isGameRunning' = isGameRunning
    /\ isGameRunningRef' = FALSE
    /\ lastOp' = Op("startGameFailed") /\ lastResult' = << >>
    /\ UNCHANGED <<mounted, bootVars, error, streamVars, roundOver, oldFetches, gameData, timeRemaining,
                   gameDataIntervalRef, gameTimers, gameFetches, nStarts, stopped,
                   snapshotApplied, now>>

\* button.push() rejected: the catch block of startGame
PushFailed(id) ==
    /\ id \in pushCalls
    /\ pushCalls' = pushCalls \ {id}
    /\ gameStatus' = SetState(gameStatus, "Error starting game")
    /\ isGameRunning' = SetState(isGameRunning, FALSE)
    /\ isGameRunningRef' = FALSE
    /\ lastOp' = Op("startGameFailed") /\ lastResult' = << >>
    /\ UNCHANGED <<mounted, bootVars, error, streamVars, roundOver, oldFetches, gameData, timeRemaining,
                   gameDataIntervalRef, gameTimers, gameFetches, nStarts, stopped,
                   snapshotApplied, now>>

\* the setInterval callback of startGame, every 1000 ms:
\* if (isGameRunningRef.current) getGameData(), up to the await of doCommand
GameTick(t) ==
    /\ t \in gameTimers
    /\ isGameRunningRef
    /\ viamClient
    /\ InFlight(gameFetches) < MaxInFlight
    /\ gameFetches' = [gameFetches EXCEPT ![t] = @ + 1]
    /\ lastOp' = OtherOp /\ lastResult' = << >>
    /\ UNCHANGED <<mounted, bootVars, error, streamVars, roundOver, oldFetches, gameStatus, isGameRunning,
                   isGameRunningRef, gameData, timeRemaining, gameDataIntervalRef,
                   gameTimers, pushCalls, nStarts, stopped, snapshotApplied, now>>

\* the smaller of two numbers
Min(a, b) == IF a < b THEN a ELSE b

\* doCommand resolved with result: the rest of getGameData.  Once the round
\* has ended, a result other than "no round" is the answer to a call the
\* module answered before the end.
GameDataArrived(t, result) ==
    /\ gameFetches[t] > 0
    /\ gameFetches' = [gameFetches EXCEPT ![t] = @ - 1]
    /\ IF roundOver /\ result # NoRound
       THEN /\ oldFetches[t] > 0
            /\ oldFetches' = [oldFetches EXCEPT ![t] = @ - 1]
       ELSE oldFetches' = [oldFetches EXCEPT ![t] = Min(@, gameFetches[t] - 1)]
    /\ snapshotApplied' = SetState(snapshotApplied, TRUE)
    /\ gameData' = SetState(gameData, result)
    /\ timeRemaining' = SetState(timeRemaining,
                                 calculateTimeRemaining(result.time_round_start, now))
    /\ IF IsGameOver(result)
       THEN /\ isGameRunning' = SetState(isGameRunning, FALSE)
            /\ isGameRunningRef' = FALSE
            /\ gameStatus' = SetState(gameStatus, "Game Over - Ready to start")
            /\ gameTimers' = ClearGameTimer(gameTimers, gameDataIntervalRef)
            /\ gameDataIntervalRef' = Null
       ELSE IF IsInProgress(result)
       THEN /\ gameStatus' = SetState(gameStatus, "Game in progress...")
            /\ isGameRunning' = SetState(isGameRunning, TRUE)
            /\ isGameRunningRef' = TRUE
            /\ UNCHANGED <<gameTimers, gameDataIntervalRef>>
       ELSE UNCHANGED <<gameStatus, isGameRunning, isGameRunningRef, gameTimers,
                        gameDataIntervalRef>>
    /\ lastOp' = Op("getGameData") /\ lastResult' = SetState(<< >>, <<result>>)
    /\ UNCHANGED <<mounted, bootVars, error, streamVars, roundOver, pushCalls, nStarts,
                   stopped, now>>

\* GameDataFailed handling the rejection as the end of the game: the timer
\* is cleared and the running flags are reset
GameDataFailedStops(t) ==
    /\ gameFetches[t] > 0
    /\ gameFetches' = [gameFetches EXCEPT ![t] = @ - 1]
    /\ oldFetches' = [oldFetches EXCEPT ![t] = Min(@, gameFetches[t] - 1)]
    /\ isGameRunning' = SetState(isGameRunning, FALSE)
    /\ isGameRunningRef' = FALSE
    /\ gameTimers' = ClearGameTimer(gameTimers, gameDataIntervalRef)
    /\ gameDataIntervalRef' = Null
    /\ lastOp' = Op("getGameDataFailed") /\ lastResult' = << >>
    /\ UNCHANGED <<mounted, bootVars, error, streamVars, roundOver, gameStatus, gameData,
                   timeRemaining, pushCalls, nStarts, stopped, snapshotApplied, now>>

\* doCommand rejected: logged, nothing else
GameDataFailed(t) ==
    /\ gameFetches[t] > 0
    /\ gameFetches' = [gameFetches EXCEPT ![t] = @ - 1]
    /\ oldFetches' = [oldFetches EXCEPT ![t] = Min(@, gameFetches[t] - 1)]
    /\ lastOp' = Op("getGameDataFailed") /\ lastResult' = << >>
    /\ UNCHANGED <<mounted, bootVars, error, streamVars, roundOver, gameStatus, isGameRunning,
                   isGameRunningRef, gameData, timeRemaining, gameDataIntervalRef,
                   gameTimers, pushCalls, nStarts, stopped, snapshotApplied, now>>

\* stopGame.  The component defines it but renders no control bound to it;
\* it is modelled as an operation available whenever the controls are.
StopGame ==
    /\ ControlsRendered
    /\ isGameRunning' = FALSE
    /\ isGameRunningRef' = FALSE
    /\ gameTimers' = ClearGameTimer(gameTimers, gameDataIntervalRef)
    /\ gameDataIntervalRef' = Null
    /\ stopped' = TRUE
    /\ lastOp' = OtherOp /\ lastResult' = << >>
    /\ UNCHANGED <<mounted, bootVars, error, streamVars, roundOver, oldFetches, gameStatus, gameData,
                   timeRemaining, pushCalls, gameFetches, nStarts, snapshotApplied, now>>

\* the countdown effect's setInterval callback, every 1000 ms.  The effect
\* is re-run whenever gameData.time_round_start changes, so the callback
\* always closes over the current value; its cleanup clears it on unmount.
CountdownTick ==
    /\ mounted
    /\ ~NoRoundStart(gameData.time_round_start)
    /\ timeRemaining' = calculateTimeRemaining(gameData.time_round_start, now)
    /\ lastOp' = Op("countdownTick") /\ lastResult' = << >>
    /\ UNCHANGED <<mounted, bootVars, error, streamVars, roundOver, oldFetches, gameStatus, isGameRunning,
                   isGameRunningRef, gameData, gameDataIntervalRef, gameTimers,
                   pushCalls, gameFetches, nStarts, stopped, snapshotApplied, now>>

(* ------------------------------ environment ---------------------------- *)
\* time passes
AdvanceClock(d) ==
    /\ now + d <= MaxNow
    /\ now' = now + d
    /\ lastOp' = OtherOp /\ lastResult' = << >>
    /\ UNCHANGED <<mounted, bootVars, error, streamVars, gameVars>>

\* the round of the game module ends (its 60 seconds are over): every call
\* it answers from now on gets "no round"; the calls in flight may have
\* been answered already
EndRound ==
    /\ ~roundOver
    /\ roundOver' = TRUE
    /\ oldFetches' = gameFetches
    /\ lastOp' = OtherOp /\ lastResult' = << >>
    /\ UNCHANGED <<mounted, bootVars, error, streamVars, gameStatus, isGameRunning,
                   isGameRunningRef, gameData, timeRemaining, gameDataIntervalRef,
                   gameTimers, pushCalls, gameFetches, nStarts, stopped,
                   snapshotApplied, now>>

\* the component is unmounted: the cleanup of the "Cleanup on unmount"
\* effect clears the two timers the refs hold (the refs keep their values);
\* the countdown effect's cleanup clears the countdown timer.
Unmount ==
    /\ mounted
    /\ mounted' = FALSE
    /\ detTimers' = ClearDetTimer(detTimers, detectionIntervalRef)
    /\ gameTimers' = ClearGameTimer(gameTimers, gameDataIntervalRef)
    /\ lastOp' = OtherOp /\ lastResult' = << >>
    /\ UNCHANGED <<bootVars, error, selectedCamera, mediaStream, isStreaming,
                   detections, canvas, detectionIntervalRef, streamCalls, liveStreams,
                   detFetches, nSelects, gameStatus, isGameRunning, isGameRunningRef,
                   gameData, timeRemaining, gameDataIntervalRef, pushCalls,
                   gameFetches, nStarts, stopped, snapshotApplied, overlapped,
                   stoppedLoops, roundOver, oldFetches, now>>

(* --------------------------- specifications ---------------------------- *)
Boot == ClientCreated \/ CamerasListed

StreamNext ==
    \/ \E cam \in Cameras : HandleCameraSelect(cam)
    \/ \E call \in streamCalls : StreamAcquired(call)
    \/ \E call \in streamCalls : StreamFailed(call)
    \/ \E t \in detTimers : DetectionTick(t)
    \/ \E t \in 1..MaxSelects, list \in DetectionLists : DetectionsArrived(t, list)
    \/ \E t \in 1..MaxSelects : DetectionsFailed(t)

GameNext ==
    \/ StartGame
    \/ \E id \in pushCalls : PushDone(id)
    \/ \E id \in pushCalls : PushFailed(id)
    \/ \E t \in gameTimers : GameTick(t)
    \/ \E t \in 1..MaxStarts, result \in Snapshots : GameDataArrived(t, result)
    \/ \E t \in 1..MaxStarts : GameDataFailed(t)
    \/ StopGame
    \/ CountdownTick
    \/ \E d \in ClockSteps : AdvanceClock(d)

\* the whole component
Next == Boot \/ StreamNext \/ GameNext \/ Unmount
Spec == Init /\ [][Next]_vars

\* the whole component with the inputs its timers do not depend on held
\* down: the clock stands still, detection lists are empty, snapshots are
\* "no round" or "a round", and each loop has one fetch in flight at most.
TimerInputs ==
    /\ detections = << >>
    /\ gameData.time_round_start \in {"None", "1970-01-01T00:00:00Z"}
    /\ lastResult \in {<< >>, <<Snapshot("", "None")>>,
                       <<Snapshot("cup", "1970-01-01T00:00:00Z")>>}
    /\ gameData.item_to_detect \in {"", "cup"}
    /\ InFlight(detFetches) <= 1
    /\ InFlight(gameFetches) <= 1
    /\ nSelects + nStarts <= MaxCalls
    /\ Cardinality(streamCalls) + Cardinality(pushCalls) <= MaxPending
TimerNext ==
    \/ ClientCreated /\ TimerInputs'
    \/ CamerasListed /\ TimerInputs'
    \/ (\E cam \in Cameras : HandleCameraSelect(cam)) /\ TimerInputs'
    \/ (\E call \in streamCalls : StreamAcquired(call)) /\ TimerInputs'
    \/ (\E call \in streamCalls : StreamFailed(call)) /\ TimerInputs'
    \/ (\E t \in detTimers : DetectionTick(t)) /\ TimerInputs'
    \/ (\E t \in 1..MaxSelects : DetectionsArrived(t, << >>)) /\ TimerInputs'
    \/ (\E t \in 1..MaxSelects : DetectionsFailed(t)) /\ TimerInputs'
    \/ StartGame /\ TimerInputs'
    \/ (\E id \in pushCalls : PushDone(id)) /\ TimerInputs'
    \/ (\E id \in pushCalls : PushFailed(id)) /\ TimerInputs'
    \/ (\E t \in gameTimers : GameTick(t)) /\ TimerInputs'
    \/ (\E t \in 1..MaxStarts, result \in Snapshots : GameDataArrived(t, result))
           /\ TimerInputs'
    \/ (\E t \in 1..MaxStarts : GameDataFailed(t)) /\ TimerInputs'
    \/ StopGame /\ TimerInputs'
    \/ CountdownTick /\ TimerInputs'
    \/ Unmount /\ TimerInputs'
TimerSpec == Init /\ [][TimerNext]_vars

\* the camera side alone: StreamController and DetectionPoller
StreamSpecNext == Boot \/ StreamNext \/ Unmount
StreamSpec == Init /\ [][StreamSpecNext]_vars

\* the game side with the end of the module's round (while a round is in
\* progress the module does not answer "no round"), and with the
\* scheduling the browser and the network give: an interval timer that can
\* fire does fire, and every call in flight returns
RoundEndNext ==
    \/ Boot
    \/ StartGame
    \/ \E id \in pushCalls : PushDone(id)
    \/ \E id \in pushCalls : PushFailed(id)
    \/ \E t \in gameTimers : GameTick(t)
    \/ \E t \in 1..MaxStarts, result \in Snapshots :
          (roundOver \/ result # NoRound) /\ GameDataArrived(t, result)
    \/ \E t \in 1..MaxStarts : GameDataFailed(t)
    \/ EndRound
    \/ Unmount
RoundEndFairness ==
    /\ WF_vars(\E t \in gameTimers : GameTick(t))
    /\ WF_vars(\E id \in pushCalls : PushDone(id) \/ PushFailed(id))
    /\ WF_vars(\E t \in 1..MaxStarts :
                  \/ GameDataFailed(t)
                  \/ \E result \in Snapshots :
                        (roundOver \/ result # NoRound) /\ GameDataArrived(t, result))
    /\ SF_vars(\E t \in 1..MaxStarts : GameDataArrived(t, NoRound))
RoundEndSpec == Init /\ [][RoundEndNext]_vars /\ RoundEndFairness

\* the game side alone: GameStatePoller, GamePhase and CountdownTimer
GameSpecNext == Boot \/ GameNext \/ Unmount
GameSpec == Init /\ [][GameSpecNext]_vars

(* ------------------------------- claims -------------------------------- *)
\* the vocabulary of the claims
OverStatus == "Game Over - Ready to start"
TerminalSnapshot(g) == g.item_to_detect = "" /\ g.time_round_start = "None"
PollersOf(cam) == {t \in detTimers : t.cam = cam}
SnapshotStep == lastOp' = "getGameData"
\* a > b as JavaScript evaluates it: false when either side is NaN
Greater(a, b) == a # NaN /\ b # NaN /\ a > b
\* the countdown's baseline
Baseline == gameData.time_round_start

\* C1: after two camera selections, the second made while the first one's
\* getStream was still in flight, and once both getStream calls have
\* completed (in either order), exactly one DetectionPoller is active, it is
\* bound to the second camera, and none is bound to the first.
C1_RapidSwitchLeavesSecondCamera ==
    (mounted /\ nSelects = 2 /\ overlapped /\ streamCalls = {})
        => /\ Cardinality(detTimers) = 1
           /\ \A t \in detTimers : t.cam = selectedCamera
           /\ \A cam \in Cameras \ {selectedCamera} : PollersOf(cam) = {}

\* C2: stopGame cancels the GameStatePoller, and from the stop on (until the
\* next start) no fetched snapshot is applied to the game data, the
\* countdown or the game phase, whenever its fetch completes.
C2_NoSnapshotAfterStop ==
    [][ /\ (~stopped /\ stopped') => gameTimers' = {}
        /\ (stopped /\ stopped' /\ SnapshotStep)
              => UNCHANGED <<gameData, timeRemaining, gameStatus, isGameRunning>>
      ]_vars

\* C3 (as stated): once a snapshot has been applied, the phase is Over
\* exactly when the latest applied snapshot is terminal (empty
\* item_to_detect and the sentinel time_round_start).
C3_OverIffLatestTerminal ==
    snapshotApplied => ((gameStatus = OverStatus) <=> TerminalSnapshot(gameData))

\* C3 (amended): applying a terminal snapshot always puts the phase to Over,
\* and the phase becomes Over by no other step than applying a terminal
\* snapshot.
C3_OverByTerminalSnapshotOnly ==
    [][ /\ (mounted /\ SnapshotStep /\ TerminalSnapshot(gameData'))
              => gameStatus' = OverStatus
        /\ (gameStatus' = OverStatus /\ gameStatus # OverStatus)
              => (SnapshotStep /\ TerminalSnapshot(gameData'))
      ]_vars

\* a second round has ended with a terminal snapshot
C3_Witness ==
    /\ mounted /\ lastOp = "getGameData" /\ nStarts = 2
    /\ TerminalSnapshot(gameData) /\ gameStatus = OverStatus

\* C4: no polling loop (a detection timer, a game-data timer) ever has more
\* than one fetch outstanding.
C4_SingleFlight ==
    /\ \A t \in 1..MaxSelects : detFetches[t] <= 1
    /\ \A t \in 1..MaxStarts : gameFetches[t] <= 1

\* C5: stopStream cancels the detection timer it stops, and the result of a
\* detection fetch of a stopped loop never replaces the Detection list.
C5_StoppedLoopResultDiscarded ==
    [][ /\ \A t \in detTimers' : t.id \notin stoppedLoops'
        /\ \A t \in stoppedLoops :
              detFetches'[t] < detFetches[t] => detections' = detections
      ]_vars

\* C6: at most one acquired media stream has its tracks not released.
C6_AtMostOneLiveStream == Cardinality(liveStreams) <= 1

\* C7: at most one detection timer and at most one game-data timer is
\* active, in every reachable state.
C7_AtMostOneTimerEach ==
    /\ Cardinality(detTimers) <= 1
    /\ Cardinality(gameTimers) <= 1

\* two overlapping camera selections have both completed and a game is
\* being polled: one timer of each kind is active
C7_Witness ==
    /\ mounted /\ overlapped /\ nSelects = 2 /\ streamCalls = {}
    /\ Cardinality(detTimers) = 1 /\ Cardinality(gameTimers) = 1

\* C8: right after a camera selection whose getStream was rejected has
\* returned, the error is surfaced, no DetectionPoller is running and at
\* most one stream is live.
C8_FailedSelectLeavesNoPoller ==
    lastOp = "streamFailed"
        => /\ mounted => error
           /\ detTimers = {}
           /\ Cardinality(liveStreams) <= 1

\* C9: after the component is unmounted no polling timer is active and no
\* media stream is live.
C9_TeardownReleasesAll ==
    ~mounted => (detTimers = {} /\ gameTimers = {} /\ liveStreams = {})

\* C10 (as stated): applying a terminal snapshot puts the phase to Over,
\* stops the GameStatePoller and leaves the displayed remaining time as it
\* was.  (Stated for the orderly case, which is enough to refute it: the
\* game was not stopped and the snapshot's fetch is the only one in flight.)
C10_TerminalFreezesRemaining ==
    [][ (mounted /\ SnapshotStep /\ TerminalSnapshot(gameData')
            /\ ~stopped /\ InFlight(gameFetches) = 1)
            => /\ gameStatus' = OverStatus
               /\ gameTimers' = {} /\ gameDataIntervalRef' = Null
               /\ timeRemaining' = timeRemaining
      ]_vars

\* C10 (amended): applying a terminal snapshot puts the phase to Over,
\* stops the GameStatePoller and sets the displayed remaining time to 0.
C10_TerminalResetsRemaining ==
    [][ (mounted /\ SnapshotStep /\ TerminalSnapshot(gameData'))
            => /\ gameStatus' = OverStatus /\ ~isGameRunning'
               /\ gameTimers' = {} /\ gameDataIntervalRef' = Null
               /\ timeRemaining' = 0
      ]_vars

\* a terminal snapshot has just been applied, later than the round's start
C10_Witness ==
    /\ mounted /\ lastOp = "getGameData" /\ TerminalSnapshot(gameData)
    /\ gameStatus = OverStatus /\ timeRemaining = 0 /\ now > 0

\* C11: between two snapshot updates the displayed remaining time never
\* increases (the clock never runs backwards), and whenever it does move
\* upward the step is one that changes the round-start baseline.
C11_RemainingRisesOnlyWithBaseline ==
    [][ /\ ~SnapshotStep => ~Greater(timeRemaining', timeRemaining)
        /\ Greater(timeRemaining', timeRemaining) => Baseline' # Baseline
      ]_vars

\* the countdown has just ticked a running round down to 29 s
C11_Witness ==
    /\ mounted /\ lastOp = "countdownTick" /\ now = 30250
    /\ Baseline = "1970-01-01T00:00:00Z" /\ timeRemaining = 29

\* C12: the displayed remaining time is a number and is never negative, in
\* every reachable state, whatever round start a snapshot carries (a
\* timestamp past or future, the sentinel, empty, unparsable) and whatever
\* the current time.
C12_RemainingNonNegative == timeRemaining # NaN /\ timeRemaining >= 0

\* the remaining time of the claims' formula, for a round that started at
\* timestamp T, seen at clock value clock: max(0, floor((T + 60 s - clock) / 1 s))
RemainingAt(T, clock) ==
    LET seconds == (DateGetTime(T) + RoundMs - clock) \div MsPerSecond
    IN  IF seconds > 0 THEN seconds ELSE 0

\* C19: every step that computes the displayed remaining time (a countdown
\* tick, a snapshot applied) for a baseline that is a timestamp T sets it to
\* max(0, floor((T + 60 s - now) / 1 s)) for the clock value of that step,
\* whatever the value displayed before.
C19_RemainingComputedFresh ==
    [][ (mounted /\ lastOp' \in {"countdownTick", "getGameData"}
            /\ Baseline' \in Timestamps)
            => timeRemaining' = RemainingAt(Baseline', now')
      ]_vars

\* a round that started at 20.250 s, ticked at 30.250 s, shows 50 s
C19_Witness ==
    /\ mounted /\ lastOp = "countdownTick"
    /\ Baseline = "1970-01-01T00:00:20.250Z" /\ now = DateGetTime(Baseline) + 10000
    /\ timeRemaining = 50

\* more vocabulary: the Running phase, the snapshot a step applies, and a
\* snapshot that names a target (item_to_detect present, not empty, not the
\* sentinel)
RunningStatus == "Game in progress..."
AppliesSnapshot(r) == mounted /\ SnapshotStep /\ lastResult' = <<r>>
NamesTarget(r) == r.item_to_detect \notin {"", Undefined, "None"}

\* C14: a step that applies a snapshot follows the transition rule: a
\* terminal snapshot puts the phase to Over and stops the GameStatePoller;
\* otherwise a snapshot that names a target puts the phase to Running and
\* makes its time_round_start the countdown baseline; any other snapshot
\* leaves the phase as it was.
C14_SnapshotTransitionRule ==
    [][ \A r \in Snapshots : AppliesSnapshot(r) =>
          IF TerminalSnapshot(r)
          THEN /\ gameStatus' = OverStatus /\ ~isGameRunning'
               /\ gameTimers' = {} /\ ~isGameRunningRef'
          ELSE IF NamesTarget(r)
          THEN /\ gameStatus' = RunningStatus /\ isGameRunning'
               /\ Baseline' = r.time_round_start
          ELSE UNCHANGED <<gameStatus, isGameRunning>>
      ]_vars

\* the snapshot of the next round has just been applied: Running, with the
\* snapshot's round start as baseline
C14_Witness ==
    /\ mounted /\ lastOp = "getGameData"
    /\ lastResult = <<Snapshot("cup", "1970-01-01T00:00:20.250Z")>>
    /\ gameStatus = RunningStatus /\ Baseline = "1970-01-01T00:00:20.250Z"

\* C16: a step that handles a failed game-state fetch leaves the phase, the
\* stored snapshot, the countdown baseline and the displayed time as they
\* were, and leaves the GameStatePoller as it was: the same timer is active
\* and the flag its callback tests is unchanged, so a poller that ran before
\* the failure runs after it.
C16_FailedGameFetchChangesNothing ==
    [][ lastOp' = "getGameDataFailed"
            => /\ UNCHANGED <<gameStatus, isGameRunning, gameData, timeRemaining>>
               /\ Baseline' = Baseline
               /\ UNCHANGED <<gameTimers, gameDataIntervalRef, isGameRunningRef>>
      ]_vars

\* a fetch of a running poller has just failed; the poller is still running
C16_Witness ==
    /\ mounted /\ lastOp = "getGameDataFailed"
    /\ gameTimers # {} /\ isGameRunningRef /\ isGameRunning

\* C17: a step that handles a failed detection fetch sets no error state,
\* leaves the Detection list as it was, and leaves the DetectionPoller as it
\* was: the same timers are active and the flag their callback tests is
\* unchanged.
C17_FailedDetectionFetchSwallowed ==
    [][ lastOp' = "getDetectionsFailed"
            => /\ error' = error
               /\ detections' = detections
               /\ UNCHANGED <<detTimers, detectionIntervalRef, isStreaming>>
      ]_vars

\* a detection fetch has just failed: no error is shown, the list drawn
\* before is still there and the poller is still running
C17_Witness ==
    /\ mounted /\ lastOp = "getDetectionsFailed" /\ ~error
    /\ detections # << >> /\ detTimers # {} /\ isStreaming

\* C20: whenever isGameRunning is true (the start button is disabled),
\* either the button.push() of startGame is still in flight or a game-data
\* timer is active.  (Stated for runs in which stopGame has not run since
\* the last start, which is enough to refute it.)
C20_RunningIsDriven ==
    (mounted /\ ~stopped /\ isGameRunning) => (pushCalls # {} \/ gameTimers # {})

\* a snapshot of unexpected shape: a field is missing, or item_to_detect is
\* not a string
Malformed(r) ==
    \/ r.item_to_detect \in {Undefined, NumberValue}
    \/ r.time_round_start = Undefined

\* C18: a step that applies a malformed snapshot makes no phase transition
\* and leaves the GameStatePoller's running status as it was.
C18_MalformedSnapshotNoTransition ==
    [][ \A r \in Snapshots : (AppliesSnapshot(r) /\ Malformed(r))
            => UNCHANGED <<gameStatus, isGameRunning, isGameRunningRef, gameTimers>>
      ]_vars

\* the two kinds of Detection of the CoordinateMapper's contract, and what a
\* drawn box is for each: its corners are the detection's corners, scaled
\* by the canvas size or taken as they are
AllInUnitRange(d) ==
    \A v \in {d.xMin, d.yMin, d.xMax, d.yMax} : 0 <= v /\ v <= One
AnyAboveOne(d) ==
    \E v \in {d.xMin, d.yMin, d.xMax, d.yMax} : v > One
CornersAre(box, xMin, yMin, xMax, yMax) ==
    /\ box.x = xMin /\ box.y = yMin
    /\ box.x + box.width = xMax /\ box.y + box.height = yMax

\* C13: right after a repaint, the box of every detection with all four
\* coordinates in [0,1] is the detection scaled by the canvas width and
\* height, and the box of every detection with a coordinate above 1 is the
\* detection's coordinates unscaled.
C13_MapperScalesOrPassesThrough ==
    lastOp = "drawDetections" =>
        /\ Len(canvas) = Len(detections)
        /\ \A i \in 1..Len(detections) :
              LET d == detections[i]
              IN  /\ AllInUnitRange(d) =>
                        CornersAre(canvas[i], d.xMin * VideoWidth, d.yMin * VideoHeight,
                                   d.xMax * VideoWidth, d.yMax * VideoHeight)
                  /\ AnyAboveOne(d) =>
                        CornersAre(canvas[i], d.xMin, d.yMin, d.xMax, d.yMax)

\* C15: whenever the overlay is rendered it shows exactly the boxes of the
\* current Detection list; in particular it is blank when the list is empty.
C15_OverlayShowsCurrentList ==
    CanvasRendered => canvas = drawDetections(detections, VideoWidth, VideoHeight)

\* the status startGame's catch block shows
ErrorStatus == "Error starting game"

\* C22: the step in which a start fails (the client is missing, or
\* button.push() is rejected) shows the error status, leaves the game not
\* running (so the start button is enabled) and starts no game-data timer.
C22_FailedStartReturnsToNotRunning ==
    [][ lastOp' = "startGameFailed"
            => /\ mounted => (gameStatus' = ErrorStatus /\ ~isGameRunning')
               /\ ~isGameRunningRef'
               /\ UNCHANGED <<gameTimers, gameDataIntervalRef>>
      ]_vars

\* the push of the first start has just been rejected
C22_Witness ==
    /\ mounted /\ lastOp = "startGameFailed" /\ nStarts = 1 /\ pushCalls = {}
    /\ gameStatus = ErrorStatus /\ ~isGameRunning /\ gameTimers = {}
    /\ ControlsRendered

\* C21 (a state of the claim's conclusion): the phase is Over and the
\* GameStatePoller is stopped
OverAndStopped == gameStatus = OverStatus /\ gameTimers = {} /\ ~isGameRunning

\* C21: once the module's round has ended and the phase is Over with the
\* GameStatePoller stopped, it stays so until the next start.
C21_OverStaysUntilNextStart ==
    [][ (mounted /\ roundOver /\ OverAndStopped)
            => (OverAndStopped' \/ nStarts' # nStarts \/ ~mounted')
      ]_vars

\* the eventual half: with the round over and a poller running, the phase
\* Over with the poller stopped is reached (or the component is unmounted,
\* or a new round begins)
RoundEndReachesOver ==
    (mounted /\ roundOver /\ isGameRunning /\ isGameRunningRef /\ gameTimers # {})
        ~> (~mounted \/ OverAndStopped \/ ~roundOver)

====
